---- MODULE Spec2Model ----
(***************************************************************************)
(* A model of EasyCurl (src/easy_curl.h, src/easy_curl.cpp): a blocking    *)
(* wrapper around one libcurl "easy" handle.                                *)
(*                                                                         *)
(* The process state is the std::once_flag of the constructor, the         *)
(* position of every constructing thread and whether exit(1) was called.   *)
(* One EasyCurl instance (the one built by MainThread) is followed through *)
(* its setters and its FetchURL / PostToURL calls: its fields, the options *)
(* stored in its libcurl handle, and the caller's destination strings.     *)
(* libcurl itself is the environment: every curl_easy_setopt,              *)
(* curl_slist_append, curl_easy_perform and curl_easy_getinfo may report   *)
(* any of the outcomes libcurl documents; the outcome of a call is the     *)
(* input record `env` of the action.                                       *)
(***************************************************************************)
EXTENDS Integers, Sequences, FiniteSets, TLC

(***************************************************************************)
(* Bounds of the model.                                                    *)
(***************************************************************************)
\* Number of threads that construct an EasyCurl concurrently.
NThreads == 3
\* Number of FetchURL / PostToURL calls followed on the instance.
MaxCalls == 2
\* Largest connection count libcurl reports for one transfer.
MaxConnects == 1

Threads == 1..NThreads
MainThread == 1

(***************************************************************************)
(* enum ErrorCode (the values DoRequest can return) and struct Error.      *)
(***************************************************************************)
kOk == 0
kNetworkError == 8
kRemoteError == 12
kTimedOut == 14

\* Error(ErrorCode code, string msg); Error(ErrorCode code) leaves msg empty.
Error(code, msg) == [code |-> code, msg |-> msg]

\* enum class CurlAuthType { NONE, BASIC }. The enumeration has a fixed
\* underlying type, so a caller can also pass a value that is neither: OTHER
\* stands for every such value (the `default:` branch of DoRequest).
CurlAuthType == {"NONE", "BASIC", "OTHER"}

(***************************************************************************)
(* libcurl result codes. CURLE_OK and CURLE_OPERATION_TIMEDOUT are the two *)
(* the source names; the others stand for "any other code":                *)
(*   4 CURLE_NOT_BUILT_IN, 7 CURLE_COULDNT_CONNECT,                        *)
(*   22 CURLE_HTTP_RETURNED_ERROR, 23 CURLE_WRITE_ERROR,                   *)
(*   27 CURLE_OUT_OF_MEMORY.                                               *)
(***************************************************************************)
CURLE_OK == 0
CURLE_OPERATION_TIMEDOUT == 28
CurlCodes == {0, 4, 7, 22, 23, 27, 28}

\* curl_easy_strerror: libcurl's generic text of a result code.
curl_easy_strerror(code) ==
  CASE code = 0 -> "No error"
    [] code = 4 -> "A requested feature, protocol or option was not found built-in in this libcurl due to a build-time decision."
    [] code = 7 -> "Couldn't connect to server"
    [] code = 22 -> "HTTP response code said error"
    [] code = 23 -> "Failed writing received data to disk/application"
    [] code = 27 -> "Out of memory"
    [] code = 28 -> "Timeout was reached"
    [] OTHER -> "Unknown error"

\* A faulty TranslateError: the timeout is recognised only when libcurl left
\* no detail text.
TranslateError_byDetail(code, errbuf) ==
  IF code = CURLE_OK
    THEN Error(kOk, "")
    ELSE IF code = CURLE_OPERATION_TIMEDOUT /\ Len(errbuf) = 0
      THEN Error(kTimedOut, "curl timeout" \o curl_easy_strerror(code))
      ELSE Error(kNetworkError,
                 "curl error" \o curl_easy_strerror(code) \o ": " \o errbuf)

(***************************************************************************)
(* TranslateError (easy_curl.cpp:34-48).                                   *)
(***************************************************************************)
TranslateError(code, errbuf) ==
  IF code = CURLE_OK
    THEN Error(kOk, "")
    ELSE LET err_msg == curl_easy_strerror(code)
                          \o (IF Len(errbuf) # 0 THEN ": " \o errbuf ELSE "")
         IN  IF code = CURLE_OPERATION_TIMEDOUT
               THEN Error(kTimedOut, "curl timeout" \o err_msg)
               ELSE Error(kNetworkError, "curl error" \o err_msg)

\* A faulty WriteCallback: it takes `size` for the byte count.
WriteCallback_short(buffer, size, nmemb, buf) ==
  [buf |-> buf \o SubSeq(buffer, 1, size), ret |-> size]

(***************************************************************************)
(* WriteCallback (easy_curl.cpp:51-56): appends size * nmemb bytes of      *)
(* `buffer` to the string behind user_ptr and returns that count.          *)
(***************************************************************************)
WriteCallback(buffer, size, nmemb, buf) ==
  LET real_size == size * nmemb
  IN  [buf |-> buf \o SubSeq(buffer, 1, real_size), ret |-> real_size]

(***************************************************************************)
(* The libcurl easy handle behind curl_: the options stored in it.  A      *)
(* handle keeps every option until it is set again; nothing in EasyCurl    *)
(* calls curl_easy_reset.  Pointer options (CURLOPT_HTTPHEADER,            *)
(* CURLOPT_POSTFIELDS, CURLOPT_WRITEDATA) are not copied by libcurl: the   *)
(* handle holds the pointer.  A pointer is modelled by the number of the   *)
(* call that owned the object (0 = null) and the object's content.         *)
(***************************************************************************)
NULL == "NULL"
\* A string* is the number of the string it points to; nullptr points to none.
nullptr == 0
NoList == [call |-> 0, items |-> << >>]
NoBody == [call |-> 0, data |-> NULL]

\* What a read through an invalid pointer can produce: some text that is not
\* the one the program meant, or the death of the process.
SIGSEGV == "SIGSEGV"
WildReads == {"", "curl error", SIGSEGV}

\* curl_easy_init(): a handle with libcurl's defaults.
curl_easy_init ==
  [httpauth |-> NULL, username |-> NULL, password |-> NULL,
   verbose |-> FALSE, failonerror |-> FALSE, httpheader |-> NoList,
   url |-> NULL, header |-> FALSE, writefunction |-> NULL, writedata |-> nullptr,
   postfields |-> NoBody, nosignal |-> FALSE, timeout |-> 0,
   dns_servers |-> NULL]

\* The options DoRequest sets, in the order of the source.
Options ==
  {"HTTPAUTH", "USERNAME", "PASSWORD", "VERBOSE", "FAILONERROR", "HTTPHEADER",
   "URL", "HEADER", "WRITEFUNCTION", "WRITEDATA", "POSTFIELDS", "NOSIGNAL",
   "TIMEOUT", "DNS_SERVERS"}

\* curl_easy_setopt(curl_, opt, val): stores val, or reports env.fail_code and
\* stores nothing when this is the option the environment refuses.
curl_easy_setopt(curl, opt, val, env) ==
  IF env.fail_opt = opt
    THEN [curl |-> curl, code |-> env.fail_code]
    ELSE [curl |->
            CASE opt = "HTTPAUTH" -> [curl EXCEPT !.httpauth = val]
              [] opt = "USERNAME" -> [curl EXCEPT !.username = val]
              [] opt = "PASSWORD" -> [curl EXCEPT !.password = val]
              [] opt = "VERBOSE" -> [curl EXCEPT !.verbose = val]
              [] opt = "FAILONERROR" -> [curl EXCEPT !.failonerror = val]
              [] opt = "HTTPHEADER" -> [curl EXCEPT !.httpheader = val]
              [] opt = "URL" -> [curl EXCEPT !.url = val]
              [] opt = "HEADER" -> [curl EXCEPT !.header = val]
              [] opt = "WRITEFUNCTION" -> [curl EXCEPT !.writefunction = val]
              [] opt = "WRITEDATA" -> [curl EXCEPT !.writedata = val]
              [] opt = "POSTFIELDS" -> [curl EXCEPT !.postfields = val]
              [] opt = "NOSIGNAL" -> [curl EXCEPT !.nosignal = val]
              [] opt = "TIMEOUT" -> [curl EXCEPT !.timeout = val]
              [] opt = "DNS_SERVERS" -> [curl EXCEPT !.dns_servers = val],
          code |-> CURLE_OK]

(***************************************************************************)
(* The locals of one DoRequest invocation are the record s:                *)
(*   curl, bufs, errbuf, num_connects  the state the call works on         *)
(*   call          the number of this invocation                           *)
(*   env           what libcurl and the server do during it                *)
(*   done, ret     set by a `return`                                       *)
(*   result        what curl_easy_perform returned                         *)
(*   steps         the libcurl calls made so far, in order                 *)
(*   curl_headers  the list behind the local curl_headers                  *)
(*   guard         whether clean_up_curl_slist has been constructed        *)
(*   leaked        list nodes no pointer refers to any more                *)
(*   crashed       the process died on an invalid read                     *)
(*   sent          the request libcurl dispatched (NoRequest before that)  *)
(*   handed        the chunks libcurl offered to the write callback        *)
(*   code          the libcurl result code behind the `return`             *)
(***************************************************************************)
NoRequest == [method |-> NULL, body |-> NULL]

\* A faulty CURL_RETURN_NOT_OK that evaluates the expression and goes on.
CURL_RETURN_NOT_OK_goOn(s, code) == s

\* CURL_RETURN_NOT_OK (easy_curl.cpp:61-66): return the translated error
\* unless the code is CURLE_OK.
CURL_RETURN_NOT_OK(s, code) ==
  LET error == TranslateError(code, s.errbuf)
  IN  IF error.code # kOk
        THEN [s EXCEPT !.done = TRUE, !.ret = error, !.code = code]
        ELSE s

\* CURL_RETURN_NOT_OK(curl_easy_setopt(curl_, opt, val)), skipped when the
\* function has already returned.
SetoptStep(s, opt, val) ==
  IF s.done
    THEN s
    ELSE LET r == curl_easy_setopt(s.curl, opt, val, s.env)
         IN  CURL_RETURN_NOT_OK(
               [s EXCEPT !.curl = r.curl, !.steps = Append(@, opt)], r.code)

\* A faulty DoRequest that attaches the header list only when there is one.
SetoptStepIf_notNull(cond, s, opt, val) ==
  IF cond /\ ~(opt = "HTTPHEADER" /\ val = NoList)
    THEN SetoptStep(s, opt, val) ELSE s

\* The same under `if (cond)`.
SetoptStepIf(cond, s, opt, val) == IF cond THEN SetoptStep(s, opt, val) ELSE s

(***************************************************************************)
(* The header list (easy_curl.cpp:145-152).  curl_slist_append returns the *)
(* list with one more node, or NULL (the empty sequence) when it cannot    *)
(* allocate, in which case it leaves the list it was given untouched.      *)
(***************************************************************************)
curl_slist_append(list, str, fails) == IF fails THEN << >> ELSE Append(list, str)

\* for (const auto& header : headers) curl_headers = curl_slist_append(...).
\* Overwriting curl_headers with NULL drops the only pointer to the nodes
\* built so far.
RECURSIVE BuildHeaderList(_, _, _, _, _)
BuildHeaderList(headers, i, list, leaked, env) ==
  IF i > Len(headers)
    THEN [list |-> list, leaked |-> leaked]
    ELSE LET fails == (env.append_fail = i)
         IN  BuildHeaderList(headers, i + 1,
                             curl_slist_append(list, headers[i], fails),
                             IF fails THEN leaked + Len(list) ELSE leaked,
                             env)

(***************************************************************************)
(* curl_easy_perform (easy_curl.cpp:175), from libcurl's documentation.    *)
(* The request is a POST exactly when CURLOPT_POSTFIELDS holds a pointer;  *)
(* the body is read through that pointer at this moment.  The response is  *)
(* handed to CURLOPT_WRITEFUNCTION chunk by chunk, the header text first   *)
(* when CURLOPT_HEADER is on; a callback that returns another count than   *)
(* it was offered aborts the transfer with CURLE_WRITE_ERROR (23).  With   *)
(* CURLOPT_FAILONERROR on, a status >= 400 makes the transfer fail with    *)
(* CURLE_HTTP_RETURNED_ERROR (22), the body is not delivered and the error *)
(* buffer says "The requested URL returned error: <status>".  A            *)
(* transfer that fails on the network (env.code) has delivered             *)
(* env.delivered chunks by then.  On failure libcurl may leave a detail    *)
(* text in CURLOPT_ERRORBUFFER.                                            *)
(***************************************************************************)
\* The decimal text of a natural number.
RECURSIVE Decimal(_)
Decimal(n) ==
  LET digit == SubSeq("0123456789", (n % 10) + 1, (n % 10) + 1)
  IN  IF n < 10 THEN digit ELSE Decimal(n \div 10) \o digit

Min(a, b) == IF a <= b THEN a ELSE b

RECURSIVE Deliver(_, _, _)
Deliver(chunks, n, buf) ==
  IF n = 0 \/ chunks = << >>
    THEN [buf |-> buf, code |-> CURLE_OK]
    ELSE LET r == WriteCallback(Head(chunks), 1, Len(Head(chunks)), buf)
         IN  IF r.ret # Len(Head(chunks))
               THEN [buf |-> r.buf, code |-> 23]
               ELSE Deliver(Tail(chunks), n - 1, r.buf)

\* The request as libcurl dispatches it from the handle's options.
Dispatched(curl, call, env) ==
  [method |-> IF curl.postfields.call # 0 THEN "POST" ELSE "GET",
   body |-> IF curl.postfields.call = 0 THEN NULL
            ELSE IF curl.postfields.call = call \/ env.stale_alive
                   THEN curl.postfields.data
                   ELSE env.wild]

curl_easy_perform(s) ==
  LET curl == s.curl
      env == s.env
      \* the string CURLOPT_POSTFIELDS points to died with an earlier call
      dangling == /\ curl.postfields.call \notin {0, s.call}
                  /\ ~env.stale_alive
      http_fail == curl.failonerror /\ env.status >= 400
      text == (IF curl.header THEN <<env.header_text>> ELSE << >>)
                \o (IF env.code = CURLE_OK /\ http_fail THEN << >> ELSE env.chunks)
      n == IF env.code = CURLE_OK /\ ~http_fail
             THEN Len(text) ELSE Min(env.delivered, Len(text))
      d == Deliver(text, n, s.bufs[curl.writedata])
      code == IF d.code # CURLE_OK THEN d.code
              ELSE IF env.code # CURLE_OK THEN env.code
              ELSE IF http_fail THEN 22 ELSE CURLE_OK
      detail == IF env.code = CURLE_OK /\ http_fail
                  THEN "The requested URL returned error: " \o Decimal(env.status)
                  ELSE env.detail
  IN  IF dangling /\ env.wild = SIGSEGV
        THEN [s EXCEPT !.crashed = TRUE, !.done = TRUE,
                       !.steps = Append(@, "perform")]
        ELSE [s EXCEPT !.steps = Append(@, "perform"),
                       !.sent = Dispatched(curl, s.call, env),
                       !.handed = SubSeq(text, 1, n),
                       !.bufs[curl.writedata] = d.buf,
                       !.errbuf = IF code = CURLE_OK THEN @ ELSE detail,
                       !.result = code]

\* curl_easy_getinfo(curl_, info, &val).
curl_easy_getinfo(info, env) ==
  IF env.fail_opt = info
    THEN [code |-> env.fail_code, val |-> -1]
    ELSE [code |-> CURLE_OK,
          val |-> IF info = "NUM_CONNECTS" THEN env.connects ELSE env.status]

(***************************************************************************)
(* State.                                                                  *)
(*   once, global_inits  the static std::once_flag of the constructor and  *)
(*                       the number of curl_global_init calls so far       *)
(*   pc                  where each constructing thread is                 *)
(*   exited              exit(1) was called, or the process died           *)
(*   curl_ .. auth_type_ the fields of the instance MainThread builds      *)
(*   bufs                the caller's destination strings                  *)
(*   slist_live          curl_slist nodes allocated and not freed          *)
(*   ncalls              FetchURL / PostToURL calls made so far            *)
(*   returned            the call that has just returned (NoCall after any *)
(*                       other operation): its arguments, what libcurl did *)
(*                       during it and the Error it returned               *)
(***************************************************************************)
VARIABLES once, global_inits, pc, exited,
          curl_, return_headers_, verbose_, fail_on_http_error_, timeout_secs_,
          dns_servers_, num_connects_, errbuf_, username_, password_,
          auth_type_, bufs, slist_live, ncalls, returned

process == <<once, global_inits, pc, exited>>
config == <<return_headers_, verbose_, fail_on_http_error_, timeout_secs_,
            dns_servers_, username_, password_, auth_type_>>
transfer == <<curl_, num_connects_, errbuf_, bufs, slist_live, ncalls>>
vars == <<process, config, transfer, returned>>

\* The caller's destination strings.
Bufs == {1, 2}
\* `returned` when no call has just returned, when set_auth has (with the
\* Error it returned), and when the process died inside the call `op`.
NoCall == [op |-> NULL]
SetAuthReturned(ret) == [op |-> NULL, set_auth |-> ret]
Died(op) == [op |-> NULL, died_in |-> op]

\* `"HTTP " + val` (easy_curl.cpp:182): the literal is a const char[6], so the
\* sum is the pointer val characters into it, and the message is the text from
\* there to the terminating NUL.  Only 0..5 point into the literal (5 at the
\* NUL itself); any other val reads memory that is not the literal's, with
\* whatever that read produces (env.wild).
HttpLiteral == "HTTP "
RemoteErrorMsg(val, env) ==
  IF val \in 0..Len(HttpLiteral)
    THEN SubSeq(HttpLiteral, val + 1, Len(HttpLiteral))
    ELSE env.wild

\* A faulty DoRequest that does not clear dst.
ClearDst_skip(strings, dst) == strings
\* dst->clear() (easy_curl.cpp:116).
ClearDst(strings, dst) == [strings EXCEPT ![dst] = ""]

\* A faulty DoRequest that leaves the error buffer as the last call left it.
ClearErrbuf_skip(errbuf) == errbuf
\* errbuf_[0] = 0 (easy_curl.cpp:118): the buffer reads as the empty string.
ClearErrbuf(errbuf) == ""

\* A faulty status test that takes only 4xx and 5xx for errors.
IsRemoteError_from400(val) == val >= 400
\* The status-range test `val < 200 || val >= 300` (easy_curl.cpp:181).
IsRemoteError(val) == val < 200 \/ val >= 300

\* A faulty DoRequest that never stores the count.
StoreNumConnects_keep(old, val) == old
\* num_connects_ = static_cast<int>(val) (easy_curl.cpp:178); the counts of
\* the model fit an int.
StoreNumConnects(old, val) == val

(***************************************************************************)
(* DoRequest (easy_curl.cpp:111-185) as a function of the instance, its    *)
(* arguments and the environment; post_data = NULL is the null pointer.    *)
(* The body is the sequence of its statements; Step runs one statement on  *)
(* the locals s, and does nothing once the function has returned.  The     *)
(* result is the record of locals at the `return`.                         *)
(***************************************************************************)
\* A faulty DoRequest that does not look at what curl_easy_perform returned.
PerformStep_unchecked(s) == curl_easy_perform(s)

\* 175: CURL_RETURN_NOT_OK(curl_easy_perform(curl_)).
PerformStep(s) ==
  LET p == curl_easy_perform(s)
  IN  IF p.crashed THEN p ELSE CURL_RETURN_NOT_OK(p, p.result)

\* 176-178: read CURLINFO_NUM_CONNECTS and store it.
NumConnectsStep(s) ==
  LET nc == curl_easy_getinfo("NUM_CONNECTS", s.env)
      r == CURL_RETURN_NOT_OK([s EXCEPT !.steps = Append(@, "NUM_CONNECTS")],
                              nc.code)
  IN  IF r.done THEN r
      ELSE [r EXCEPT !.num_connects = StoreNumConnects(@, nc.val)]

\* 180-184: read CURLINFO_RESPONSE_CODE and return.
ResponseCodeStep(s) ==
  LET rc == curl_easy_getinfo("RESPONSE_CODE", s.env)
      r == CURL_RETURN_NOT_OK([s EXCEPT !.steps = Append(@, "RESPONSE_CODE")],
                              rc.code)
  IN  IF r.done THEN r
      ELSE IF IsRemoteError(rc.val)
        THEN IF rc.val \notin 0..Len(HttpLiteral) /\ s.env.wild = SIGSEGV
               THEN [r EXCEPT !.done = TRUE, !.crashed = TRUE]
               ELSE [r EXCEPT !.done = TRUE,
                              !.ret = Error(kRemoteError,
                                            RemoteErrorMsg(rc.val, s.env))]
        ELSE [r EXCEPT !.done = TRUE, !.ret = Error(kOk, "")]

Setopt(cond, opt, val) == [kind |-> "setopt", cond |-> cond, opt |-> opt, val |-> val]

Step(s, stmt) ==
  IF s.done THEN s
  ELSE CASE stmt.kind = "setopt" -> SetoptStepIf(stmt.cond, s, stmt.opt, stmt.val)
         \* assert(cond): a failed assertion aborts the process.  (A build
         \* with NDEBUG goes on to call clear() through the null pointer.)
         [] stmt.kind = "assert" ->
              IF stmt.cond THEN s ELSE [s EXCEPT !.done = TRUE, !.crashed = TRUE]
         [] stmt.kind = "clear" ->
              [s EXCEPT !.bufs = ClearDst(@, stmt.dst),
                        !.errbuf = ClearErrbuf(@)]
         [] stmt.kind = "slist" ->
              [s EXCEPT !.guard = TRUE, !.curl_headers = stmt.list,
                        !.leaked = stmt.leaked]
         [] stmt.kind = "perform" -> PerformStep(s)
         [] stmt.kind = "num_connects" -> NumConnectsStep(s)
         [] stmt.kind = "response_code" -> ResponseCodeStep(s)

\* Runs the statements in order, each on the locals the one before left.
RECURSIVE Run(_, _)
Run(s, stmts) ==
  IF stmts = << >> THEN s
  ELSE CHOOSE r \in {Run(Step(x, Head(stmts)), Tail(stmts)) : x \in {s}} : TRUE

DoRequest(url, post_data, dst, headers, env) ==
  LET call == ncalls + 1
      s0 == [curl |-> curl_, bufs |-> bufs, errbuf |-> errbuf_,
             num_connects |-> num_connects_, call |-> call, env |-> env,
             done |-> FALSE, ret |-> Error(kOk, ""), steps |-> << >>,
             curl_headers |-> << >>, guard |-> FALSE, leaked |-> 0,
             crashed |-> FALSE, sent |-> NoRequest, handed |-> << >>,
             result |-> CURLE_OK, code |-> CURLE_OK]
      \* 145-152: the list the loop builds
      b == BuildHeaderList(headers, 1, << >>, 0, env)
  IN  Run(s0, <<
        \* 115: assert(dst != nullptr);
        [kind |-> "assert", cond |-> dst # nullptr],
        \* 116-118: dst->clear(); errbuf_[0] = 0;
        [kind |-> "clear", dst |-> dst],
        \* 120-130: switch (auth_type_)
        Setopt(auth_type_ # "NONE", "HTTPAUTH",
               IF auth_type_ = "BASIC" THEN "CURLAUTH_BASIC" ELSE "CURLAUTH_ANY"),
        \* 132-135
        Setopt(auth_type_ # "NONE", "USERNAME", username_),
        Setopt(auth_type_ # "NONE", "PASSWORD", password_),
        \* 137-142
        Setopt(verbose_, "VERBOSE", TRUE),
        Setopt(fail_on_http_error_, "FAILONERROR", TRUE),
        \* 145-153
        [kind |-> "slist", list |-> b.list, leaked |-> b.leaked],
        Setopt(TRUE, "HTTPHEADER",
               IF b.list = << >> THEN NoList
               ELSE [call |-> call, items |-> b.list]),
        \* 155-160
        Setopt(TRUE, "URL", url),
        Setopt(return_headers_, "HEADER", TRUE),
        Setopt(TRUE, "WRITEFUNCTION", "WriteCallback"),
        Setopt(TRUE, "WRITEDATA", dst),
        \* 161-164
        Setopt(post_data # NULL, "POSTFIELDS",
               [call |-> call, data |-> post_data]),
        \* 166-169
        Setopt(timeout_secs_ > 0, "NOSIGNAL", TRUE),
        Setopt(timeout_secs_ > 0, "TIMEOUT", timeout_secs_),
        \* 171-173
        Setopt(dns_servers_ # "", "DNS_SERVERS", dns_servers_),
        \* 175-184
        [kind |-> "perform"], [kind |-> "num_connects"],
        [kind |-> "response_code"] >>)

(***************************************************************************)
(* Init: the process has started; no thread has entered the constructor    *)
(* body yet.  The fields hold their default member initialisers            *)
(* (easy_curl.h:144-166) and timeout_secs_(-1) of the constructor's        *)
(* initialiser list; errbuf_ has no initialiser.  The caller's strings     *)
(* hold text of their own.                                                 *)
(***************************************************************************)
Init ==
  /\ once = "idle"
  /\ global_inits = 0
  /\ pc = [t \in Threads |-> "call_once"]
  /\ exited = FALSE
  /\ curl_ = NULL
  /\ return_headers_ = FALSE
  /\ verbose_ = FALSE
  /\ fail_on_http_error_ = FALSE
  /\ timeout_secs_ = -1
  /\ dns_servers_ = ""
  /\ num_connects_ = 0
  /\ errbuf_ = NULL
  /\ username_ = ""
  /\ password_ = ""
  /\ auth_type_ = "NONE"
  /\ bufs = [b \in Bufs |-> "old"]
  /\ slist_live = 0
  /\ ncalls = 0
  /\ returned = NoCall

(***************************************************************************)
(* EasyCurl::EasyCurl() (easy_curl.cpp:68-93), one action per step a       *)
(* thread can be preempted at.                                             *)
(***************************************************************************)
\* std::call_once: the caller that finds the flag unused runs the callable.
OnceMayExecute(flag) == flag = "idle"
\* A faulty once: a caller that finds the flag taken returns at once.
OnceMayReturn_early(flag) == flag # "idle"
\* std::call_once: every other caller returns only when a call of the
\* callable has completed.
OnceMayReturn(flag) == flag = "done"

\* 73: the thread enters std::call_once as the one that runs the lambda.
CallOnceActive(t) ==
  /\ ~exited
  /\ pc[t] = "call_once"
  /\ OnceMayExecute(once)
  /\ once' = "running"
  /\ pc' = [pc EXCEPT ![t] = "global_init"]
  /\ UNCHANGED <<global_inits, exited, config, transfer, returned>>

\* 73: the thread leaves std::call_once without running the lambda.
CallOncePassive(t) ==
  /\ ~exited
  /\ pc[t] = "call_once"
  /\ ~OnceMayExecute(once)
  /\ OnceMayReturn(once)
  /\ pc' = [pc EXCEPT ![t] = "easy_init"]
  /\ UNCHANGED <<once, global_inits, exited, config, transfer, returned>>

\* 74-77: the lambda: curl_global_init, and exit(1) when it fails.
GlobalInit(t, ok) ==
  /\ ~exited
  /\ pc[t] = "global_init"
  /\ global_inits' = global_inits + 1
  /\ IF ok
       THEN /\ once' = "done"
            /\ pc' = [pc EXCEPT ![t] = "easy_init"]
            /\ UNCHANGED exited
       ELSE /\ exited' = TRUE
            /\ UNCHANGED <<once, pc>>
  /\ UNCHANGED <<config, transfer, returned>>

\* 79-83: curl_easy_init, and exit(1) when it returns nullptr.
EasyInit(t, ok) ==
  /\ ~exited
  /\ pc[t] = "easy_init"
  /\ IF ok
       THEN /\ pc' = [pc EXCEPT ![t] = "set_errbuf"]
            /\ curl_' = IF t = MainThread THEN curl_easy_init ELSE curl_
            /\ UNCHANGED exited
       ELSE /\ exited' = TRUE
            /\ UNCHANGED <<pc, curl_>>
  /\ UNCHANGED <<once, global_inits, config, num_connects_, errbuf_, bufs,
                 slist_live, ncalls, returned>>

\* 88-92: CURLOPT_ERRORBUFFER, and exit(1) when it fails.
SetErrorBuffer(t, ok) ==
  /\ ~exited
  /\ pc[t] = "set_errbuf"
  /\ IF ok
       THEN /\ pc' = [pc EXCEPT ![t] = "constructed"]
            /\ UNCHANGED exited
       ELSE /\ exited' = TRUE
            /\ UNCHANGED pc
  /\ UNCHANGED <<once, global_inits, config, transfer, returned>>

\* EasyCurl::~EasyCurl() (easy_curl.cpp:95-97).
Destroy(t) ==
  /\ ~exited
  /\ pc[t] = "constructed"
  /\ pc' = [pc EXCEPT ![t] = "destroyed"]
  /\ curl_' = IF t = MainThread THEN NULL ELSE curl_
  /\ returned' = IF t = MainThread THEN NoCall ELSE returned
  /\ UNCHANGED <<once, global_inits, exited, config, num_connects_, errbuf_,
                 bufs, slist_live, ncalls>>

\* The instance is constructed and alive.
Usable == ~exited /\ pc[MainThread] = "constructed"

(***************************************************************************)
(* The setters (easy_curl.h:92-127): each stores its argument in a field.  *)
(***************************************************************************)
set_return_headers(v) ==
  /\ Usable
  /\ return_headers_' = v
  /\ returned' = NoCall
  /\ UNCHANGED <<process, verbose_, fail_on_http_error_, timeout_secs_,
                 dns_servers_, username_, password_, auth_type_, transfer>>

set_timeout(secs) ==
  /\ Usable
  /\ timeout_secs_' = secs
  /\ returned' = NoCall
  /\ UNCHANGED <<process, return_headers_, verbose_, fail_on_http_error_,
                 dns_servers_, username_, password_, auth_type_, transfer>>

set_dns_servers(dns_servers) ==
  /\ Usable
  /\ dns_servers_' = dns_servers
  /\ returned' = NoCall
  /\ UNCHANGED <<process, return_headers_, verbose_, fail_on_http_error_,
                 timeout_secs_, username_, password_, auth_type_, transfer>>

\* Returns kOk: Error(ErrorCode) leaves msg empty.
set_auth(auth_type, username, password) ==
  /\ Usable
  /\ auth_type_' = auth_type
  /\ username_' = username
  /\ password_' = password
  /\ returned' = SetAuthReturned(Error(kOk, ""))
  /\ UNCHANGED <<process, return_headers_, verbose_, fail_on_http_error_,
                 timeout_secs_, dns_servers_, transfer>>

set_verbose(v) ==
  /\ Usable
  /\ verbose_' = v
  /\ returned' = NoCall
  /\ UNCHANGED <<process, return_headers_, fail_on_http_error_, timeout_secs_,
                 dns_servers_, username_, password_, auth_type_, transfer>>

set_fail_on_http_error(fail_on_http_error) ==
  /\ Usable
  /\ fail_on_http_error_' = fail_on_http_error
  /\ returned' = NoCall
  /\ UNCHANGED <<process, return_headers_, verbose_, timeout_secs_,
                 dns_servers_, username_, password_, auth_type_, transfer>>

(***************************************************************************)
(* FetchURL and PostToURL (easy_curl.cpp:99-109): both are DoRequest, with *)
(* a null and a non-null post_data.  The whole call is one step: the       *)
(* object is not shared between threads.  Return is the effect of the      *)
(* call on the instance and the caller; `returned` records the call for    *)
(* the properties below.                                                   *)
(***************************************************************************)
Return(op, url, post_data, dst, headers, env) ==
  \E s \in {DoRequest(url, post_data, dst, headers, env)} :
      /\ IF s.crashed
           THEN /\ exited' = TRUE
                /\ returned' = Died(op)
                /\ UNCHANGED <<once, global_inits, pc, config, transfer>>
           ELSE /\ curl_' = s.curl
                /\ bufs' = s.bufs
                /\ errbuf_' = s.errbuf
                /\ num_connects_' = s.num_connects
                \* ~ScopedCleanup frees the nodes curl_headers points to
                /\ slist_live' = slist_live + s.leaked
                /\ ncalls' = ncalls + 1
                /\ returned' = [op |-> op, url |-> url, post_data |-> post_data,
                                dst |-> dst, headers |-> headers, env |-> env,
                                before |-> [bufs |-> bufs,
                                            num_connects |-> num_connects_,
                                            errbuf |-> errbuf_],
                                steps |-> s.steps, sent |-> s.sent,
                                handed |-> s.handed, code |-> s.code,
                                ret |-> s.ret]
                /\ UNCHANGED <<process, config>>

FetchURL(url, dst, headers, env) ==
  /\ Usable
  /\ ncalls < MaxCalls
  /\ Return("FetchURL", url, NULL, dst, headers, env)

PostToURL(url, post_data, dst, headers, env) ==
  /\ Usable
  /\ ncalls < MaxCalls
  /\ Return("PostToURL", url, post_data, dst, headers, env)

(***************************************************************************)
(* Inputs.  An environment record says what libcurl and the server do      *)
(* during one call:                                                        *)
(*   fail_opt, fail_code  the curl_easy_setopt / curl_easy_getinfo that    *)
(*                        reports fail_code ("none": all succeed)          *)
(*   append_fail          the curl_slist_append that returns NULL (0: none)*)
(*   code, detail         the transfer's network outcome and the text      *)
(*                        libcurl leaves in the error buffer on failure    *)
(*   delivered            chunks handed over before a failing transfer     *)
(*                        stopped                                          *)
(*   status, header_text, chunks, connects  the server's response and the  *)
(*                        connections the transfer opened                  *)
(*   stale_alive          whether a string an earlier call passed as       *)
(*                        post_data still exists, unchanged                *)
(*   wild                 what a read through an invalid pointer yields    *)
(***************************************************************************)
Url == "http://h/a"
PostData == {"x=1", "y=2"}
HeaderLists == {<< >>, <<"A: 1">>, <<"A: 1", "A: 1">>, <<"A: 1", "B: 2">>}
Statuses == {0, 199, 200, 299, 300, 404}
Chunkings == {<< >>, <<"ab">>, <<"ab", "c">>}
Details == {"", "refused"}
Timeouts == {-1, 0, 5}
DnsServers == {"", "10.0.0.1"}
Users == {"", "u"}
Passwords == {"", "p"}

BaseEnv ==
  [fail_opt |-> "none", fail_code |-> CURLE_OK, append_fail |-> 0,
   code |-> CURLE_OK, detail |-> "", delivered |-> 0,
   status |-> 200, header_text |-> "H: v\r\n\r\n", chunks |-> <<"ab", "c">>,
   connects |-> 1, stale_alive |-> TRUE, wild |-> ""]

\* The server answers with every status and connection count.
Served ==
  {[BaseEnv EXCEPT !.status = c, !.connects = n] :
     c \in Statuses, n \in 0..MaxConnects}
\* A 2xx response arrives in every chunking.
Chunked ==
  {[BaseEnv EXCEPT !.chunks = k, !.status = c] : k \in Chunkings, c \in {200, 299}}
\* The transfer fails on the network after some chunks.
NetFailed ==
  {[BaseEnv EXCEPT !.code = c, !.detail = d, !.delivered = n] :
     c \in {7, CURLE_OPERATION_TIMEDOUT}, d \in Details, n \in 0..2}
\* One curl_easy_setopt or curl_easy_getinfo reports a failure.
Refusals(opts, codes) ==
  {[BaseEnv EXCEPT !.fail_opt = o, !.fail_code = c] : o \in opts, c \in codes}
Refused == Refusals(Options \cup {"NUM_CONNECTS", "RESPONSE_CODE"}, {4, 27})
\* Invalid reads go every way they can.
Wild(envs) == {[e EXCEPT !.wild = w] : e \in envs, w \in WildReads}
\* The string of an earlier post_data is gone.
Stale(envs) == {[e EXCEPT !.stale_alive = FALSE] : e \in envs}
AllEnvs ==
  LET base == Served \cup Chunked \cup NetFailed \cup Refused
                \cup {[BaseEnv EXCEPT !.append_fail = i] : i \in 1..2}
  IN  Wild(base) \cup Wild(Stale(base))

(***************************************************************************)
(* The next-state relation.  Construct(t) is the constructor and           *)
(* destructor run by thread t; Next lets every thread construct and the    *)
(* instance of MainThread be used with every input.                        *)
(***************************************************************************)
Construct(t) ==
  \/ CallOnceActive(t)
  \/ CallOncePassive(t)
  \/ \E ok \in BOOLEAN : GlobalInit(t, ok)
  \/ \E ok \in BOOLEAN : EasyInit(t, ok)
  \/ \E ok \in BOOLEAN : SetErrorBuffer(t, ok)
  \/ Destroy(t)

\* One thread alone: it always finds the once_flag unused.
ConstructAlone(t) ==
  \/ CallOnceActive(t)
  \/ \E ok \in BOOLEAN : GlobalInit(t, ok)
  \/ \E ok \in BOOLEAN : EasyInit(t, ok)
  \/ \E ok \in BOOLEAN : SetErrorBuffer(t, ok)
  \/ Destroy(t)

Next ==
  \/ \E t \in Threads : Construct(t)
  \/ \E v \in BOOLEAN : set_return_headers(v)
  \/ \E v \in BOOLEAN : set_verbose(v)
  \/ \E v \in BOOLEAN : set_fail_on_http_error(v)
  \/ \E secs \in Timeouts : set_timeout(secs)
  \/ \E d \in DnsServers : set_dns_servers(d)
  \/ \E a \in CurlAuthType, u \in Users, pw \in Passwords : set_auth(a, u, pw)
  \/ \E dst \in Bufs \cup {nullptr}, h \in HeaderLists, env \in AllEnvs :
       FetchURL(Url, dst, h, env)
  \/ \E data \in PostData, dst \in Bufs \cup {nullptr}, h \in HeaderLists,
        env \in AllEnvs :
       PostToURL(Url, data, dst, h, env)

Spec == Init /\ [][Next]_vars

(***************************************************************************)
(* Scenarios: each restricts Next to the operations and inputs one group   *)
(* of properties is about, so every behaviour of a scenario is a behaviour *)
(* of Spec.                                                                *)
(***************************************************************************)
\* Several threads construct (and destroy) an EasyCurl each.
NextCtor == \E t \in Threads : Construct(t)
SpecCtor == Init /\ [][NextCtor]_vars

\* One instance, its flags, timeout and DNS servers changed between GETs.
NextConfig ==
  \/ ConstructAlone(MainThread)
  \/ \E v \in BOOLEAN : set_return_headers(v)
  \/ \E v \in BOOLEAN : set_verbose(v)
  \/ \E v \in BOOLEAN : set_fail_on_http_error(v)
  \/ \E secs \in Timeouts : set_timeout(secs)
  \/ \E d \in DnsServers : set_dns_servers(d)
  \/ FetchURL(Url, 1, << >>, BaseEnv)
SpecConfig == Init /\ [][NextConfig]_vars

\* One instance, its authentication changed between GETs.
NextAuth ==
  \/ ConstructAlone(MainThread)
  \/ \E a \in CurlAuthType, u \in Users, pw \in Passwords : set_auth(a, u, pw)
  \/ \E env \in {BaseEnv, [BaseEnv EXCEPT !.status = 404]} :
       FetchURL(Url, 1, << >>, env)
SpecAuth == Init /\ [][NextAuth]_vars

\* One instance doing GETs against every server answer, network failure and
\* libcurl refusal, with fail_on_http_error_ switched in between.
NextStatus ==
  \/ ConstructAlone(MainThread)
  \/ \E v \in BOOLEAN : set_fail_on_http_error(v)
  \/ \E env \in Wild(Served) \cup NetFailed \cup Refused :
       FetchURL(Url, 1, << >>, env)
SpecStatus == Init /\ [][NextStatus]_vars

\* One instance doing GETs and POSTs into the caller's strings, with the
\* response in every chunking, transfers that break off, libcurl refusals,
\* and return_headers_ switched in between.
NextTransfer ==
  \/ ConstructAlone(MainThread)
  \/ \E v \in BOOLEAN : set_return_headers(v)
  \/ \E dst \in Bufs,
        env \in Chunked \cup NetFailed \cup Wild(Stale({BaseEnv}))
                  \cup Refusals({"URL", "WRITEDATA", "RESPONSE_CODE"}, {27}) :
       FetchURL(Url, dst, << >>, env)
  \/ \E data \in PostData, dst \in Bufs, env \in Chunked :
       PostToURL(Url, data, dst, << >>, env)
SpecTransfer == Init /\ [][NextTransfer]_vars

\* One instance doing GETs with every header list into the caller's strings
\* or through a null dst, while libcurl fails to append a header, refuses an
\* option before or after the list is attached, or the transfer fails;
\* verbose_ is switched on in between.
HeaderEnvs ==
  {BaseEnv, [BaseEnv EXCEPT !.status = 404, !.wild = SIGSEGV],
   [BaseEnv EXCEPT !.code = 7, !.detail = "refused"]}
    \cup {[BaseEnv EXCEPT !.append_fail = i] : i \in 1..2}
    \cup Refusals({"VERBOSE", "HTTPHEADER", "URL"}, {27})
NextHeaders ==
  \/ ConstructAlone(MainThread)
  \/ set_verbose(TRUE)
  \/ \E dst \in Bufs \cup {nullptr}, h \in HeaderLists, env \in HeaderEnvs :
       FetchURL(Url, dst, h, env)
SpecHeaders == Init /\ [][NextHeaders]_vars

\* One instance with the optional settings switched on one after the other
\* (authentication, then the flags, then the timeout, then the DNS servers),
\* doing GETs and POSTs while libcurl refuses one option or one query, or
\* none.
RefusalEnvs ==
  {BaseEnv} \cup Refusals(Options \cup {"NUM_CONNECTS", "RESPONSE_CODE"}, {27})
NextRefusals ==
  \/ ConstructAlone(MainThread)
  \/ \E a \in {"BASIC", "OTHER"} : auth_type_ = "NONE" /\ set_auth(a, "u", "p")
  \/ auth_type_ # "NONE" /\ set_verbose(TRUE)
  \/ verbose_ /\ set_fail_on_http_error(TRUE)
  \/ fail_on_http_error_ /\ set_return_headers(TRUE)
  \/ return_headers_ /\ set_timeout(5)
  \/ timeout_secs_ > 0 /\ set_dns_servers("10.0.0.1")
  \/ \E env \in RefusalEnvs : FetchURL(Url, 1, <<"A: 1">>, env)
  \/ \E env \in RefusalEnvs : PostToURL(Url, "x=1", 1, << >>, env)
SpecRefusals == Init /\ [][NextRefusals]_vars

(***************************************************************************)
(* Vocabulary of the properties.                                           *)
(***************************************************************************)
\* A call has just returned.
Returned == returned.op # NULL
\* ... and libcurl dispatched its request.
Performed == Returned /\ returned.sent # NoRequest
\* ... and nothing libcurl was asked during it failed on the network or was
\* refused: the server's answer came back.
Answered ==
  /\ Returned
  /\ returned.env.fail_opt = "none"
  /\ returned.env.code = CURLE_OK

Outside2xx(c) == c < 200 \/ c >= 300

RECURSIVE Concat(_)
Concat(chunks) ==
  IF chunks = << >> THEN "" ELSE Head(chunks) \o Concat(Tail(chunks))

Contains(text, part) ==
  \E i \in 1..(Len(text) - Len(part) + 1) :
    SubSeq(text, i, i + Len(part) - 1) = part

Range(seq) == {seq[i] : i \in 1..Len(seq)}

(***************************************************************************)
(* C1.  In any sequence of FetchURL and PostToURL calls on one instance,   *)
(* the request dispatched is a POST if and only if that call supplied a    *)
(* body; every FetchURL dispatches a GET with no body, also after a        *)
(* PostToURL on the same instance.                                         *)
(* Violated: CURLOPT_POSTFIELDS stays in the handle after a PostToURL and  *)
(* nothing (CURLOPT_HTTPGET) switches the handle back, so the next         *)
(* FetchURL is dispatched as a POST, its body read through the pointer of  *)
(* the earlier call.                                                       *)
(***************************************************************************)
C1_PostIffBody ==
  Performed =>
    /\ (returned.sent.method = "POST") <=> (returned.post_data # NULL)
    /\ returned.op = "FetchURL" =>
         returned.sent.method = "GET" /\ returned.sent.body = NULL

(***************************************************************************)
(* C2.  The options in force in the transport when a request is performed  *)
(* equal the configuration fields at the start of that call: header echo,  *)
(* verbose and fail-on-error are on iff the flag is true, a timeout is in  *)
(* force iff timeout_secs_ > 0 and equals it, a DNS override is in force   *)
(* iff dns_servers_ is non-empty and equals it.                            *)
(* Violated: DoRequest only ever switches an option on; a flag set back to *)
(* false, a timeout set back to <= 0 and an emptied DNS list leave the     *)
(* handle as the earlier call configured it.                               *)
(***************************************************************************)
C2_OptionsFollowConfig ==
  Performed =>
    /\ curl_.header = return_headers_
    /\ curl_.verbose = verbose_
    /\ curl_.failonerror = fail_on_http_error_
    /\ curl_.timeout = (IF timeout_secs_ > 0 THEN timeout_secs_ ELSE 0)
    /\ curl_.dns_servers = (IF dns_servers_ # "" THEN dns_servers_ ELSE NULL)

(***************************************************************************)
(* C3.  With auth_type_ NONE the request is performed with no              *)
(* authentication mechanism and no credentials in the transport, also      *)
(* after an earlier call ran with BASIC; with BASIC the transport is       *)
(* Basic-only with the current username and password; with any other mode  *)
(* it tries any mechanism with the current credentials.                    *)
(* Violated: with NONE nothing is written to the handle, so the mechanism  *)
(* and the credentials of an earlier call stay in force.                   *)
(***************************************************************************)
C3_AuthFollowsConfig ==
  Performed =>
    CASE auth_type_ = "NONE" ->
           /\ curl_.httpauth = NULL
           /\ curl_.username = NULL
           /\ curl_.password = NULL
      [] auth_type_ = "BASIC" ->
           /\ curl_.httpauth = "CURLAUTH_BASIC"
           /\ curl_.username = username_
           /\ curl_.password = password_
      [] OTHER ->
           /\ curl_.httpauth = "CURLAUTH_ANY"
           /\ curl_.username = username_
           /\ curl_.password = password_

(***************************************************************************)
(* C4 as stated.  For every status c with c < 200 or c >= 300 returned by  *)
(* the server, the call returns kRemoteError, whether fail_on_http_error_  *)
(* is true or false.                                                       *)
(* Violated: with CURLOPT_FAILONERROR in force and c >= 400,               *)
(* curl_easy_perform itself fails and the call returns kNetworkError.      *)
(***************************************************************************)
C4_RemoteErrorWhateverTheFlag ==
  (Answered /\ Outside2xx(returned.env.status)) =>
    returned.ret.code = kRemoteError

(***************************************************************************)
(* C4 amended.  For every status c outside [200, 300) the server returns,  *)
(* a call that returns gives kRemoteError unless CURLOPT_FAILONERROR is in *)
(* force on the handle and c >= 400; then it gives kNetworkError.          *)
(***************************************************************************)
C4_RemoteErrorUnlessTransportFails ==
  (Answered /\ Outside2xx(returned.env.status)) =>
    returned.ret.code =
      (IF curl_.failonerror /\ returned.env.status >= 400
         THEN kNetworkError ELSE kRemoteError)

\* A 404 with fail_on_http_error_ set: the transport reports the failure.
C4_Witness ==
  /\ Answered
  /\ returned.env.status = 404
  /\ fail_on_http_error_
  /\ returned.ret.code = kNetworkError

(***************************************************************************)
(* C5.  Whenever a call returns kRemoteError for status code c, the        *)
(* Error's message contains the decimal text of c.                         *)
(* Violated: the message is `"HTTP " + val`, a pointer into (or past) the  *)
(* literal, never the number: for c = 0 it is "HTTP ".                     *)
(***************************************************************************)
C5_MessageCarriesStatus ==
  (Returned /\ returned.ret.code = kRemoteError) =>
    Contains(returned.ret.msg, Decimal(returned.env.status))

(***************************************************************************)
(* C6.  After any call returns, with any outcome, *dst holds exactly the   *)
(* bytes libcurl delivered during that call, whatever dst held before and  *)
(* whatever earlier calls received.                                        *)
(***************************************************************************)
C6_DstHoldsOnlyThisCall ==
  Returned => bufs[returned.dst] = Concat(returned.handed)

\* A second call fails into the string that holds the first call's response.
C6_Witness ==
  /\ Returned
  /\ ncalls = 2
  /\ returned.before.bufs[returned.dst] \notin {"", "old"}
  /\ returned.ret.code # kOk
  /\ bufs[returned.dst] # returned.before.bufs[returned.dst]

(***************************************************************************)
(* C7.  For every status in [200, 300) and a round trip that succeeds, the *)
(* call returns kOk and *dst is the in-order concatenation of all chunks   *)
(* the transport delivered: the response body, with the header text first  *)
(* when return_headers_ is set; the callback accepts every chunk in full.  *)
(***************************************************************************)
C7_OkAndBodyInOrder ==
  (Answered /\ ~Outside2xx(returned.env.status)) =>
    LET body == Concat(returned.env.chunks)
        offered == (IF curl_.header THEN <<returned.env.header_text>> ELSE << >>)
                     \o returned.env.chunks
    IN  /\ returned.ret.code = kOk
        /\ returned.code = CURLE_OK
        /\ returned.handed = offered
        /\ bufs[returned.dst] = Concat(offered)
        /\ return_headers_ => bufs[returned.dst] = returned.env.header_text \o body

\* The header text and two chunks, into a string that held an earlier response.
C7_Witness ==
  /\ Answered
  /\ returned.ret.code = kOk
  /\ return_headers_
  /\ returned.env.chunks = <<"ab", "c">>
  /\ returned.env.status = 299
  /\ returned.before.bufs[returned.dst] \notin {"", "old"}

C9_InitOnceBeforeAnyHandle ==
  /\ global_inits <= 1
  /\ \A t \in Threads :
       pc[t] \in {"set_errbuf", "constructed", "destroyed"} =>
         once = "done" /\ global_inits = 1

\* Two threads hold a handle while a third has not entered call_once yet.
C9_Witness ==
  \E t1, t2, t3 \in Threads :
    /\ t1 # t2
    /\ pc[t1] = "set_errbuf"
    /\ pc[t2] = "constructed"
    /\ pc[t3] = "call_once"

(***************************************************************************)
(* C10.  The Error kind is a total function of the libcurl code alone:     *)
(* CURLE_OK gives kOk, CURLE_OPERATION_TIMEDOUT gives kTimedOut, every     *)
(* other code gives kNetworkError; the detail buffer never changes it.     *)
(* Checked on the code and detail text of every call that returns, and on  *)
(* every code with every detail text a call can leave in errbuf_.          *)
(***************************************************************************)
KindOf(code) ==
  IF code = 0 THEN kOk ELSE IF code = 28 THEN kTimedOut ELSE kNetworkError

C10_KindFromCodeAlone ==
  /\ \A c \in CurlCodes, d \in Details \cup {IF errbuf_ = NULL THEN "" ELSE errbuf_} :
       TranslateError(c, d).code = KindOf(c)
  /\ Returned =>
       IF returned.code = CURLE_OK
         THEN returned.ret.code \in {kOk, kRemoteError}
         ELSE returned.ret.code = KindOf(returned.code)

\* A timeout that left a detail text, and one that left none.
C10_Witness ==
  /\ Returned
  /\ returned.code = CURLE_OPERATION_TIMEDOUT
  /\ errbuf_ = "refused"
  /\ returned.ret.code = kTimedOut

(***************************************************************************)
(* C11.  For the timeout code the translated message is exactly            *)
(* "request timed out: " followed by the transport diagnostic, and for any *)
(* other non-zero code exactly "transport error: " followed by it; the     *)
(* diagnostic is "<generic>: <detail>" when the detail buffer is non-empty *)
(* and "<generic>" alone otherwise.  Stated of the Error of every call     *)
(* that returns on a libcurl failure, with the code libcurl reported and   *)
(* the detail text it left in errbuf_.                                     *)
(* Violated: the prefixes are "curl timeout" and "curl error", and nothing *)
(* separates them from the diagnostic:                                     *)
(* TranslateError(28, "") is "curl timeoutTimeout was reached".            *)
(***************************************************************************)
TransportDiagnostic(code, detail) ==
  IF detail # "" THEN curl_easy_strerror(code) \o ": " \o detail
  ELSE curl_easy_strerror(code)

MessageOf(code, detail) ==
  (IF code = CURLE_OPERATION_TIMEDOUT
     THEN "request timed out: " ELSE "transport error: ")
    \o TransportDiagnostic(code, detail)

C11_MessageFormat ==
  (Returned /\ returned.code # CURLE_OK) =>
    returned.ret.msg = MessageOf(returned.code, errbuf_)

(***************************************************************************)
(* C12.  Every Error returned by set_auth, FetchURL or PostToURL has an    *)
(* empty msg when its code is kOk and a non-empty msg when it is not, for  *)
(* kTimedOut, kNetworkError and kRemoteError alike.                        *)
(* Violated: the msg of kRemoteError is `"HTTP " + val` (see C5), the tail *)
(* of the literal from offset val or whatever lies val bytes past it, and  *)
(* that text can be empty.                                                 *)
(***************************************************************************)
MsgIffNotOk(error) == (error.code = kOk) <=> (error.msg = "")

C12_MsgEmptyIffOk ==
  /\ Returned => MsgIffNotOk(returned.ret)
  /\ "set_auth" \in DOMAIN returned => MsgIffNotOk(returned.set_auth)

(***************************************************************************)
(* C13.  Nothing that happens inside FetchURL / PostToURL / DoRequest      *)
(* terminates the process: the process ends only in the constructor, on a  *)
(* failed curl_global_init, curl_easy_init or CURLOPT_ERRORBUFFER.         *)
(* Violated: assert(dst != nullptr) aborts the process on a null dst, and  *)
(* the read `"HTTP " + val` past the literal (see C5) can kill it on a     *)
(* status outside [200, 300).                                              *)
(***************************************************************************)
C13_ProcessEndsOnlyInConstructor ==
  exited =>
    /\ "died_in" \notin DOMAIN returned
    /\ \E t \in Threads : pc[t] \in {"global_init", "easy_init", "set_errbuf"}

(***************************************************************************)
(* C14.  Every curl_slist node allocated while DoRequest builds the header *)
(* list has been released when DoRequest returns, on every exit path:      *)
(* success, a configuration error after the list was started, a transport  *)
(* failure, kRemoteError, and a failed append of one header.               *)
(* Violated: the result of curl_slist_append is assigned to curl_headers   *)
(* unchecked, so a failed append overwrites the only pointer to the nodes  *)
(* built so far and clean_up_curl_slist cannot free them.                  *)
(***************************************************************************)
C14_HeaderListReleased == Returned => slist_live = 0

(***************************************************************************)
(* C15.  If appending any one of the supplied headers fails, DoRequest     *)
(* returns a non-Ok Error and curl_easy_perform is not called; when it is  *)
(* called, the list attached to the handle is exactly the supplied headers *)
(* in the supplied order, duplicates included.                             *)
(* Violated: a failed curl_slist_append goes unnoticed; the request is     *)
(* performed with the headers appended after the failure only.             *)
(***************************************************************************)
C15_AllHeadersOrNoRequest ==
  Returned =>
    /\ returned.env.append_fail \in 1..Len(returned.headers) =>
         /\ returned.ret.code # kOk
         /\ "perform" \notin Range(returned.steps)
    /\ "perform" \in Range(returned.steps) =>
         curl_.httpheader.items = returned.headers

(***************************************************************************)
(* C16.  If a curl_easy_setopt of a call reports a non-success code,       *)
(* DoRequest returns at once with the translation of that code: it makes   *)
(* no later libcurl call and never calls curl_easy_perform for that call.  *)
(* No call invokes curl_easy_perform more than once.                       *)
(***************************************************************************)
\* The call made the curl_easy_setopt that libcurl refused.
ConfigRefused ==
  /\ Returned
  /\ returned.env.fail_opt \in Options
  /\ returned.env.fail_opt \in Range(returned.steps)

C16_ConfigFailureAborts ==
  Returned =>
    LET steps == returned.steps
    IN  /\ ConfigRefused =>
             /\ steps[Len(steps)] = returned.env.fail_opt
             /\ \A i \in 1..(Len(steps) - 1) : steps[i] # returned.env.fail_opt
             /\ "perform" \notin Range(steps)
             /\ returned.sent = NoRequest
             /\ returned.ret = TranslateError(returned.env.fail_code, errbuf_)
             /\ returned.ret.code # kOk
        /\ Cardinality({i \in 1..Len(steps) : steps[i] = "perform"}) <= 1

\* A POST with a timeout configured is refused the timeout: the body was
\* attached, the DNS servers (configured too) were not.
C16_Witness ==
  /\ ConfigRefused
  /\ returned.op = "PostToURL"
  /\ returned.env.fail_opt = "TIMEOUT"
  /\ "POSTFIELDS" \in Range(returned.steps)
  /\ dns_servers_ # ""
  /\ curl_.dns_servers = NULL

(***************************************************************************)
(* C17.  Whenever curl_easy_perform reports a non-success code, the call   *)
(* returns kTimedOut or kNetworkError, neither the connection count nor    *)
(* the status code is read, and num_connects_ stays as it was; kRemoteError*)
(* is returned only after curl_easy_perform succeeded.                     *)
(***************************************************************************)
\* libcurl was asked to perform and the transfer failed: on the network, or
\* on a status >= 400 with CURLOPT_FAILONERROR in force.
PerformFailed ==
  /\ Returned
  /\ "perform" \in Range(returned.steps)
  /\ \/ returned.env.code # CURLE_OK
     \/ curl_.failonerror /\ returned.env.status >= 400

C17_TransportFailureShortCircuits ==
  Returned =>
    /\ PerformFailed =>
         /\ returned.ret.code \in {kTimedOut, kNetworkError}
         /\ "NUM_CONNECTS" \notin Range(returned.steps)
         /\ "RESPONSE_CODE" \notin Range(returned.steps)
         /\ num_connects_ = returned.before.num_connects
    /\ returned.ret.code = kRemoteError =>
         "perform" \in Range(returned.steps) /\ ~PerformFailed

\* A 404 that CURLOPT_FAILONERROR turns into a failed transfer, after a call
\* that opened a connection; this transfer opened none.
C17_Witness ==
  /\ PerformFailed
  /\ returned.env.status = 404
  /\ returned.env.code = CURLE_OK
  /\ returned.env.connects = 0
  /\ returned.before.num_connects = 1
  /\ num_connects_ = 1

(***************************************************************************)
(* C18.  The error buffer is cleared at the start of every call: the       *)
(* detail text in the Error a call returns is the text libcurl wrote       *)
(* during that call, or none; a failure never carries the detail text an   *)
(* earlier failed call left in errbuf_.                                    *)
(***************************************************************************)
\* What libcurl wrote into the error buffer during the call that returned.
DetailOfThisCall ==
  IF ~PerformFailed THEN ""
  ELSE IF returned.env.code # CURLE_OK THEN returned.env.detail
  ELSE "The requested URL returned error: " \o Decimal(returned.env.status)

C18_DetailOfThisCallOnly ==
  Returned =>
    /\ errbuf_ = DetailOfThisCall
    /\ returned.code # CURLE_OK =>
         returned.ret = TranslateError(returned.code, DetailOfThisCall)

\* A call fails without detail text after one that left "refused".
C18_Witness ==
  /\ Returned
  /\ returned.before.errbuf = "refused"
  /\ returned.ret.code # kOk
  /\ DetailOfThisCall = ""
  /\ ~Contains(returned.ret.msg, "refused")

(***************************************************************************)
(* C19.  Across any sequence of calls on one instance, curl_easy_perform   *)
(* never runs while the handle refers to the header list or the dst of an  *)
(* earlier call: within the same DoRequest invocation it is preceded by    *)
(* attaching this invocation's list (CURLOPT_HTTPHEADER) and this          *)
(* invocation's dst (CURLOPT_WRITEDATA).  Between calls the handle does    *)
(* keep the pointer to the released list, and a call that returns on a     *)
(* configuration error before line 153 leaves it there.                    *)
(***************************************************************************)
\* The place of the first occurrence of a libcurl call in the steps of the
\* call that returned (0: not made).
StepAt(name) ==
  LET at == {i \in 1..Len(returned.steps) : returned.steps[i] = name}
  IN  IF at = {} THEN 0 ELSE CHOOSE i \in at : \A j \in at : i <= j

C19_PerformOnThisCallsListAndDst ==
  (Returned /\ "perform" \in Range(returned.steps)) =>
    /\ 0 < StepAt("HTTPHEADER") /\ StepAt("HTTPHEADER") < StepAt("perform")
    /\ 0 < StepAt("WRITEDATA") /\ StepAt("WRITEDATA") < StepAt("perform")
    /\ curl_.httpheader.call \in {0, ncalls}
    /\ curl_.httpheader.call = 0 => curl_.httpheader.items = << >>
    /\ curl_.writedata = returned.dst

\* A second call performs with no headers into another string, after a call
\* that attached a list and wrote into the first string.
C19_Witness ==
  /\ Performed
  /\ ncalls = 2
  /\ returned.headers = << >>
  /\ curl_.httpheader = NoList
  /\ returned.dst = 2
  /\ bufs[1] \notin {"", "old"}
  /\ bufs[2] # ""

====
